---- MODULE Spec2Model ----
(***************************************************************************)
(* A model of src/SimulasiMonteCarlo/app.montecarlo.py: the interval-label *)
(* helpers, the interval sampler (get_simulation_value), the band column   *)
(* of display_distribution_table, the simulation engine                    *)
(* (run_monte_carlo_simulation) and the run-button flow of __main__.       *)
(*                                                                         *)
(* Text is a sequence of one-character strings.  Characters that are not   *)
(* ASCII are written by name: "a_circ" is U+00E2, "en_dash" is U+2013,     *)
(* "em_dash" is U+2014.  A Python value that may be None is a sequence:    *)
(* <<>> is None and <<v>> is the value v.  A float read from the           *)
(* spreadsheet is the exact fraction <<num, den>> (den > 0).               *)
(***************************************************************************)
EXTENDS Integers, Sequences, FiniteSets, TLC

VARIABLES
    pc,                 \* position of the call or flow that is being run
    interval_str,       \* argument of clean_interval_string
    cleaned,            \* its result, the argument of parse_interval
    parsed,             \* result of parse_interval
    midpoint,           \* math.ceil((a + b) / 2) of the parsed bounds, or None
    df,                 \* a distribution table: rows of 'Interval Kelas ' and 'Prob Kumulatif * 100'
    random_number,      \* argument of get_simulation_value
    sim_value,          \* its returned value
    sim_bands,          \* the (lower_bound, upper_bound) pairs its loop went through
    display_df,         \* the columns display_distribution_table adds to df
    distribusi_dict,    \* blood group -> distribution table, as load_all_distributions returns it
    num_simulations_str,\* the text of the period-count input
    is_valid_input,     \* the flag of the run-button handler
    num_simulations,    \* argument of run_monte_carlo_simulation
    i,                  \* its loop variable
    simulation_results, \* its list of period records
    simulation_df,      \* what it returned, None until it returns
    draws,              \* how many times random.randint has been called
    engine_calls,       \* how many times run_monte_carlo_simulation has been entered
    shown,              \* what the page has shown since the button was pressed, in order
    summary_report,     \* what perform_summary_analysis worked out, None until it has
    insights_report,    \* what provide_decision_insights worked out, None until it has
    raised              \* the exception a call ended with, None for none

samplerVars == <<df, random_number, sim_value, sim_bands, display_df>>
intervalVars == <<interval_str, cleaned, parsed, midpoint>>
engineVars == <<num_simulations, i, simulation_results, simulation_df, draws, engine_calls>>
pageVars == <<num_simulations_str, is_valid_input, shown>>
summaryVars == <<summary_report, insights_report, raised>>

vars == <<pc, interval_str, cleaned, parsed, midpoint,
          df, random_number, sim_value, sim_bands, display_df,
          distribusi_dict, num_simulations_str, is_valid_input, num_simulations, i,
          simulation_results, simulation_df, draws, engine_calls, shown,
          summary_report, insights_report, raised>>

None == <<>>
Some(v) == <<v>>

Digits == {"0", "1", "2", "3", "4", "5", "6", "7", "8", "9"}

DigitVal(c) ==
    CASE c = "0" -> 0 [] c = "1" -> 1 [] c = "2" -> 2 [] c = "3" -> 3
      [] c = "4" -> 4 [] c = "5" -> 5 [] c = "6" -> 6 [] c = "7" -> 7
      [] c = "8" -> 8 [] c = "9" -> 9

DigitChar(n) ==
    CASE n = 0 -> "0" [] n = 1 -> "1" [] n = 2 -> "2" [] n = 3 -> "3"
      [] n = 4 -> "4" [] n = 5 -> "5" [] n = 6 -> "6" [] n = 7 -> "7"
      [] n = 8 -> "8" [] n = 9 -> "9"

\* str.replace(old, new) for a one-character old; new is a text (possibly empty).
RECURSIVE Replace(_, _, _)
Replace(s, old, new) ==
    IF s = <<>> THEN <<>>
    ELSE (IF Head(s) = old THEN new ELSE <<Head(s)>>) \o Replace(Tail(s), old, new)

\* str.split(sep) for a one-character sep: the pieces between the separators,
\* empty pieces included; the result always has at least one piece.
RECURSIVE Split(_, _)
Split(s, sep) ==
    IF s = <<>> THEN << <<>> >>
    ELSE LET rest == Split(Tail(s), sep)
         IN  IF Head(s) = sep THEN << <<>> >> \o rest
             ELSE << <<Head(s)>> \o rest[1] >> \o Tail(rest)

\* str.strip() on the whitespace of the model's alphabet, the space.
RECURSIVE LStrip(_)
LStrip(s) == IF s # <<>> /\ Head(s) = " " THEN LStrip(Tail(s)) ELSE s

RECURSIVE RStrip(_)
RStrip(s) ==
    IF s # <<>> /\ s[Len(s)] = " " THEN RStrip(SubSeq(s, 1, Len(s) - 1)) ELSE s

RECURSIVE DigitsValue(_)
DigitsValue(s) ==
    IF s = <<>> THEN 0
    ELSE 10 * DigitsValue(SubSeq(s, 1, Len(s) - 1)) + DigitVal(s[Len(s)])

\* int(text): surrounding whitespace is dropped, one sign is allowed, the rest
\* must be one or more decimal digits; anything else raises ValueError (None).
PyInt(s) ==
    LET t    == RStrip(LStrip(s))
        neg  == t # <<>> /\ Head(t) = "-"
        sgn  == t # <<>> /\ Head(t) \in {"-", "+"}
        body == IF sgn THEN Tail(t) ELSE t
    IN  IF body = <<>> \/ \E k \in 1..Len(body) : body[k] \notin Digits
        THEN None
        ELSE Some(IF neg THEN 0 - DigitsValue(body) ELSE DigitsValue(body))

\* str(n) for an integer n.
RECURSIVE NatStr(_)
NatStr(n) == IF n < 10 THEN <<DigitChar(n)>> ELSE NatStr(n \div 10) \o <<DigitChar(n % 10)>>

PyStr(n) == IF n < 0 THEN <<"-">> \o NatStr(0 - n) ELSE NatStr(n)

\* str.zfill(width): zeros are put after a leading sign.
RECURSIVE ZFill(_, _)
ZFill(s, width) ==
    IF Len(s) >= width THEN s
    ELSE IF s # <<>> /\ Head(s) \in {"-", "+"}
         THEN ZFill(<<Head(s), "0">> \o Tail(s), width)
         ELSE ZFill(<<"0">> \o s, width)

\* int(round(x)) of a float x = num/den: nearest integer, ties to the even one.
PyRound(x) ==
    LET num == x[1]
        den == x[2]
        q   == num \div den
        r   == num % den
    IN  IF 2 * r < den THEN q
        ELSE IF 2 * r > den THEN q + 1
        ELSE IF q % 2 = 0 THEN q ELSE q + 1

\* The midpoint rounded down instead of up.
FloorHalf(n) == n \div 2

\* math.ceil(n / 2) for an integer n.
CeilHalf(n) == (n + 1) \div 2

clean_interval_string(s) ==
    Replace(Replace(Replace(Replace(Replace(s,
        "a_circ", <<"-">>), "en_dash", <<"-">>), "em_dash", <<"-">>), " ", <<>>), ",", <<>>)

\* a, b = map(int, interval_str.split('-')): the unpacking pulls the pieces one
\* by one, so it raises ValueError at the first piece int() rejects, for fewer
\* than two pieces, and for a third piece whatever it holds.
parse_interval(s) ==
    LET pieces == Split(s, "-")
    IN  IF Len(pieces) = 2 /\ PyInt(pieces[1]) # None /\ PyInt(pieces[2]) # None
        THEN <<PyInt(pieces[1]), PyInt(pieces[2])>>
        ELSE <<None, None>>

\* The sampler going on to the later rows when the matching row's label does not parse.
RECURSIVE get_simulation_walk_skip(_, _, _, _, _)
get_simulation_walk_skip(table, number, k, lower_bound, seen) ==
    IF k > Len(table) THEN [value |-> 0, bands |-> seen]
    ELSE LET upper_bound == PyRound(table[k].cum)
             now         == Append(seen, <<lower_bound, upper_bound>>)
             ab          == parse_interval(clean_interval_string(table[k].interval))
         IN  IF lower_bound <= number /\ number <= upper_bound /\ ab[1] # None /\ ab[2] # None
             THEN [value |-> CeilHalf(ab[1][1] + ab[2][1]), bands |-> now]
             ELSE get_simulation_walk_skip(table, number, k + 1, upper_bound + 1, now)

\* The loop of get_simulation_value from row k on, with lower_bound as the loop
\* holds it; seen is the (lower_bound, upper_bound) pairs gone through so far.
\* The result is the returned value and those pairs.
RECURSIVE get_simulation_walk(_, _, _, _, _)
get_simulation_walk(table, number, k, lower_bound, seen) ==
    IF k > Len(table) THEN [value |-> 0, bands |-> seen]
    ELSE LET upper_bound == PyRound(table[k].cum)
             now         == Append(seen, <<lower_bound, upper_bound>>)
         IN  IF lower_bound <= number /\ number <= upper_bound
             THEN LET ab == parse_interval(clean_interval_string(table[k].interval))
                  IN  IF ab[1] # None /\ ab[2] # None
                      THEN [value |-> CeilHalf(ab[1][1] + ab[2][1]), bands |-> now]
                      ELSE [value |-> 0, bands |-> now]
             ELSE get_simulation_walk(table, number, k + 1, upper_bound + 1, now)

get_simulation_value(table, number) == get_simulation_walk(table, number, 1, 0, <<>>).value

\* The band column with each band starting at the previous upper bound itself.
RECURSIVE display_bands_overlap(_, _, _)
display_bands_overlap(table, k, lower_bound) ==
    IF k > Len(table) THEN <<>>
    ELSE LET upper_bound == PyRound(table[k].cum)
         IN  << ZFill(PyStr(lower_bound), 2) \o <<" ", "-", " ">> \o ZFill(PyStr(upper_bound), 2) >>
             \o display_bands_overlap(table, k + 1, upper_bound)

\* The second loop of display_distribution_table: the 'Interval Angka Acak'
\* texts of the rows from k on, with lower_bound as the loop holds it.
RECURSIVE display_bands(_, _, _)
display_bands(table, k, lower_bound) ==
    IF k > Len(table) THEN <<>>
    ELSE LET upper_bound == PyRound(table[k].cum)
         IN  << ZFill(PyStr(lower_bound), 2) \o <<" ", "-", " ">> \o ZFill(PyStr(upper_bound), 2) >>
             \o display_bands(table, k + 1, upper_bound + 1)

\* The first loop of display_distribution_table: the 'Titik Tengah' column.
display_midpoints(table) ==
    [k \in 1..Len(table) |->
        LET ab == parse_interval(clean_interval_string(table[k].interval))
        IN  IF ab[1] # None /\ ab[2] # None
            THEN Some(CeilHalf(ab[1][1] + ab[2][1]))
            ELSE None]

\* The columns display_distribution_table adds or rewrites, row by row.
display_distribution_table(table) ==
    LET mids  == display_midpoints(table)
        bands == display_bands(table, 1, 0)
    IN  [k \in 1..Len(table) |->
            [interval |-> clean_interval_string(table[k].interval),
             cum      |-> table[k].cum,
             titik_tengah        |-> mids[k],
             interval_angka_acak |-> bands[k]]]

(***************************************************************************)
(* Inputs of the bounded checks.                                           *)
(***************************************************************************)
MaxLabelLen == 3
MaxRows == 3

LabelAlphabet == {"1", "3", "-", "a_circ", "en_dash", "em_dash", " ", ",", "x"}

RECURSIVE TextsUpTo(_, _)
TextsUpTo(alphabet, n) ==
    IF n = 0 THEN {<<>>}
    ELSE LET shorter == TextsUpTo(alphabet, n - 1)
         IN  shorter \cup {Append(t, c) : t \in shorter, c \in alphabet}

\* The label of the docstring of clean_interval_string, '103a-130' with U+00E2.
Label103 == <<"1", "0", "3", "a_circ", "-", "1", "3", "0">>
\* Labels as the spreadsheets may hold them.
LabelEnDash == <<"1", "0", "3", "en_dash", "1", "3", "0">>
LabelThousands == <<"1", ",", "0", "0", "0", " ", "-", " ", "2", ",", "0", "0", "0">>

LabelInputs == TextsUpTo(LabelAlphabet, MaxLabelLen) \cup {Label103, LabelEnDash, LabelThousands}

Row(label, num, den) == [interval |-> label, cum |-> <<num, den>>]

Row_1_10    == Row(<<"1", "-", "1", "0">>, 100, 1)
Row_11_20   == Row(<<"1", "1", "en_dash", "2", "0">>, 101, 2)
Row_21_30   == Row(<<"2", "1", " ", "-", " ", "3", "0">>, 492, 5)
Row_x       == Row(<<"x">>, 50, 1)
Row_4_9     == Row(<<"4", "em_dash", "9">>, 5, 2)
Row_5_9     == Row(<<"5", "a_circ", "-", "9">>, 199, 2)

RowOptions == {Row_1_10, Row_11_20, Row_21_30, Row_x, Row_4_9, Row_5_9}

RECURSIVE TablesUpTo(_)
TablesUpTo(n) ==
    IF n = 0 THEN {<<>>}
    ELSE LET shorter == TablesUpTo(n - 1)
         IN  shorter \cup {Append(t, r) : t \in shorter, r \in RowOptions}

\* random.randint(0, 99) draws from RandLow..RandHigh.
RandLow == 0
RandHigh == 99

(***************************************************************************)
(* The interval helpers, called one after the other on a label.            *)
(***************************************************************************)
IdleEngine ==
    /\ distribusi_dict = <<>>
    /\ num_simulations = 0
    /\ i = 0
    /\ simulation_results = <<>>
    /\ simulation_df = None
    /\ draws = 0
    /\ engine_calls = 0

IdlePage ==
    /\ num_simulations_str = <<>>
    /\ is_valid_input = TRUE
    /\ shown = <<>>

IdleSummary ==
    /\ summary_report = None
    /\ insights_report = None
    /\ raised = None

IdleSampler ==
    /\ df = <<>>
    /\ random_number = 0
    /\ sim_value = None
    /\ sim_bands = <<>>
    /\ display_df = <<>>

IdleInterval ==
    /\ interval_str = <<>>
    /\ cleaned = None
    /\ parsed = None
    /\ midpoint = None

InitInterval ==
    /\ pc = "clean"
    /\ interval_str \in LabelInputs
    /\ cleaned = None
    /\ parsed = None
    /\ midpoint = None
    /\ IdleSampler
    /\ IdleEngine
    /\ IdlePage
    /\ IdleSummary

CleanStep ==
    /\ pc = "clean"
    /\ cleaned' = Some(clean_interval_string(interval_str))
    /\ pc' = "parse"
    /\ UNCHANGED <<interval_str, parsed, midpoint, samplerVars, distribusi_dict, summaryVars, engineVars, pageVars>>

ParseStep ==
    /\ pc = "parse"
    /\ parsed' = Some(parse_interval(cleaned[1]))
    /\ pc' = "midpoint"
    /\ UNCHANGED <<interval_str, cleaned, midpoint, samplerVars, distribusi_dict, summaryVars, engineVars, pageVars>>

\* if a is not None and b is not None: math.ceil((a + b) / 2), else None or 0.
MidpointStep ==
    /\ pc = "midpoint"
    /\ midpoint' = IF parsed[1][1] # None /\ parsed[1][2] # None
                   THEN Some(CeilHalf(parsed[1][1][1] + parsed[1][2][1]))
                   ELSE None
    /\ pc' = "done"
    /\ UNCHANGED <<interval_str, cleaned, parsed, samplerVars, distribusi_dict, summaryVars, engineVars, pageVars>>

NextInterval == CleanStep \/ ParseStep \/ MidpointStep

SpecInterval == InitInterval /\ [][NextInterval]_vars

(***************************************************************************)
(* The sampler and the display of one table.                               *)
(***************************************************************************)
InitSampler ==
    /\ pc = "call"
    /\ df \in TablesUpTo(MaxRows)
    /\ random_number \in RandLow..RandHigh
    /\ sim_value = None
    /\ sim_bands = <<>>
    /\ display_df = <<>>
    /\ IdleInterval
    /\ IdleEngine
    /\ IdlePage
    /\ IdleSummary

Sample ==
    /\ pc = "call"
    /\ sim_value' = Some(get_simulation_value(df, random_number))
    /\ sim_bands' = get_simulation_walk(df, random_number, 1, 0, <<>>).bands
    /\ pc' = "sampled"
    /\ UNCHANGED <<intervalVars, df, random_number, display_df, distribusi_dict, summaryVars, engineVars, pageVars>>

Display ==
    /\ pc = "sampled"
    /\ display_df' = display_distribution_table(df)
    /\ pc' = "displayed"
    /\ UNCHANGED <<intervalVars, df, random_number, sim_value, sim_bands, distribusi_dict, summaryVars, engineVars, pageVars>>

NextSampler == Sample \/ Display

SpecSampler == InitSampler /\ [][NextSampler]_vars

(***************************************************************************)
(* run_monte_carlo_simulation.                                             *)
(***************************************************************************)
MaxPeriods == 2

\* The lookup falling back to the table of A instead of an empty table.
DictGetFallbackA(dict, gol) ==
    IF gol \in DOMAIN dict THEN dict[gol]
    ELSE IF "A" \in DOMAIN dict THEN dict["A"] ELSE <<>>

\* distribusi_dict.get(gol, pd.DataFrame())
DictGet(dict, gol) == IF gol \in DOMAIN dict THEN dict[gol] ELSE <<>>

\* random.randint(low, high): the draws followed here are the two ends of the range.
randint(low, high) == {low, high}

\* The loop running one round too many.
RangeHasNextInclusive(k, n) == k <= n

\* for i in range(num_simulations): whether the loop has another round at i.
RangeHasNext(k, n) == k < n

(***************************************************************************)
(* Python floats (IEEE 754 binary64, round to nearest, ties to even) for   *)
(* the shares.  A natural number of any size is a sequence of limbs, least *)
(* significant first, each in 0..LimbBase-1, without zero limbs at the top; *)
(* <<>> is 0.  A float is [m |-> M, e |-> E], the number M * 2^E, with M a  *)
(* natural number of exactly MantissaBits bits, or M = <<>> for 0.0.       *)
(* Subnormal and infinite values do not arise at the sizes followed here.  *)
(***************************************************************************)
LimbBits == 15
LimbBase == 2^LimbBits
MantissaBits == 53

RECURSIVE BigFromNat(_)
BigFromNat(n) == IF n = 0 THEN <<>> ELSE <<n % LimbBase>> \o BigFromNat(n \div LimbBase)

RECURSIVE BigNorm(_)
BigNorm(x) ==
    IF x # <<>> /\ x[Len(x)] = 0 THEN BigNorm(SubSeq(x, 1, Len(x) - 1)) ELSE x

\* x * c + carry, for a factor c below LimbBase.
RECURSIVE BigMulSmall(_, _, _)
BigMulSmall(x, c, carry) ==
    IF x = <<>> THEN BigFromNat(carry)
    ELSE LET v == x[1] * c + carry
         IN  <<v % LimbBase>> \o BigMulSmall(Tail(x), c, v \div LimbBase)

RECURSIVE BigAddCarry(_, _, _)
BigAddCarry(x, y, carry) ==
    IF x = <<>> /\ y = <<>> THEN BigFromNat(carry)
    ELSE LET a == IF x = <<>> THEN 0 ELSE x[1]
             b == IF y = <<>> THEN 0 ELSE y[1]
             v == a + b + carry
         IN  <<v % LimbBase>>
             \o BigAddCarry(IF x = <<>> THEN <<>> ELSE Tail(x),
                            IF y = <<>> THEN <<>> ELSE Tail(y), v \div LimbBase)

BigAdd(x, y) == BigAddCarry(x, y, 0)

\* Quotient (not normalised) and remainder of x by a divisor t below 2^16.
RECURSIVE BigDivMod(_, _)
BigDivMod(x, t) ==
    IF x = <<>> THEN [q |-> <<>>, r |-> 0]
    ELSE LET upper == BigDivMod(Tail(x), t)
             cur   == upper.r * LimbBase + x[1]
         IN  [q |-> <<cur \div t>> \o upper.q, r |-> cur % t]

\* x * 2^d
BigShl(x, d) ==
    IF x = <<>> THEN <<>>
    ELSE [k \in 1..(d \div LimbBits) |-> 0] \o BigMulSmall(x, 2^(d % LimbBits), 0)

\* floor(x / 2^d)
BigShr(x, d) ==
    LET w == d \div LimbBits
    IN  IF w >= Len(x) THEN <<>>
        ELSE BigNorm(BigDivMod(SubSeq(x, w + 1, Len(x)), 2^(d % LimbBits)).q)

\* Bit j of x, the lowest being bit 0.
BigBit(x, j) ==
    LET k == j \div LimbBits + 1
    IN  IF k > Len(x) THEN 0 ELSE (x[k] \div 2^(j % LimbBits)) % 2

RECURSIVE SmallBitLen(_)
SmallBitLen(n) == IF n = 0 THEN 0 ELSE 1 + SmallBitLen(n \div 2)

BigBitLen(x) == IF x = <<>> THEN 0 ELSE LimbBits * (Len(x) - 1) + SmallBitLen(x[Len(x)])

\* x / 2^d rounded to the nearest natural number, ties to the even one (d >= 1).
BigRoundShr(x, d) ==
    LET down   == BigShr(x, d)
        half   == BigBit(x, d - 1) = 1
        sticky == \E j \in 0..(d - 2) : BigBit(x, j) = 1
        odd    == BigBit(x, d) = 1
    IN  IF half /\ (sticky \/ odd) THEN BigAdd(down, <<1>>) ELSE down

\* x <= y
RECURSIVE BigLeq(_, _)
BigLeq(x, y) ==
    IF Len(x) # Len(y) THEN Len(x) < Len(y)
    ELSE IF x = <<>> THEN TRUE
    ELSE IF x[Len(x)] # y[Len(y)] THEN x[Len(x)] < y[Len(y)]
    ELSE BigLeq(BigNorm(SubSeq(x, 1, Len(x) - 1)), BigNorm(SubSeq(y, 1, Len(y) - 1)))

FloatZero == [m |-> <<>>, e |-> 0]

\* The float nearest to M * 2^E.
FloatRound(M, E) ==
    IF M = <<>> THEN FloatZero
    ELSE LET len == BigBitLen(M)
         IN  IF len <= MantissaBits
             THEN [m |-> BigShl(M, MantissaBits - len), e |-> E - (MantissaBits - len)]
             ELSE LET d == len - MantissaBits
                      r == BigRoundShr(M, d)
                  IN  IF BigBitLen(r) > MantissaBits
                      THEN [m |-> BigShr(r, 1), e |-> E + d + 1]
                      ELSE [m |-> r, e |-> E + d]

\* a / t for integers a >= 0 and 0 < t < 2^16: the quotient is taken to 75
\* binary places, a last bit records whether anything is left, and the whole
\* is rounded once.
IntTrueDiv(a, t) ==
    LET qr == BigDivMod(BigShl(BigFromNat(a), 75), t)
        q  == BigNorm(qr.q)
    IN  FloatRound(BigAdd(BigShl(q, 1), IF qr.r # 0 THEN <<1>> ELSE <<>>), 0 - 76)

\* f * c for a float f >= 0 and an integer 0 <= c < LimbBase.
FloatMulNat(f, c) == FloatRound(BigMulSmall(f.m, c, 0), f.e)

\* f + g for floats f, g >= 0 (the code adds no floats; the claims about the
\* sum of the shares do).
FloatAdd(f, g) ==
    IF f.m = <<>> THEN g
    ELSE IF g.m = <<>> THEN f
    ELSE LET e0 == IF f.e < g.e THEN f.e ELSE g.e
         IN  FloatRound(BigAdd(BigShl(f.m, f.e - e0), BigShl(g.m, g.e - e0)), e0)

\* The share without the factor 100.
share_fraction(sim, total_sim) == IF total_sim # 0 THEN IntTrueDiv(sim, total_sim) ELSE FloatZero

\* (sim / total_sim * 100) if total_sim else 0
share_percent(sim, total_sim) ==
    IF total_sim # 0 THEN FloatMulNat(IntTrueDiv(sim, total_sim), 100) ELSE FloatZero

\* The record of a round with the value of B sampled from the table of A.
period_record_wrong_table(dict, k, a_acak, b_acak, ab_acak, o_acak) ==
    LET sim_a  == get_simulation_value(DictGet(dict, "A"), a_acak)
        sim_b  == get_simulation_value(DictGet(dict, "A"), b_acak)
        sim_ab == get_simulation_value(DictGet(dict, "AB"), ab_acak)
        sim_o  == get_simulation_value(DictGet(dict, "O"), o_acak)
        total_sim == sim_a + sim_b + sim_ab + sim_o
    IN  ("Periode" :> k + 1) @@
        ("Angka Acak A" :> a_acak) @@ ("Angka Acak B" :> b_acak) @@
        ("Angka Acak AB" :> ab_acak) @@ ("Angka Acak O" :> o_acak) @@
        ("Simulasi A" :> sim_a) @@ ("Simulasi B" :> sim_b) @@
        ("Simulasi AB" :> sim_ab) @@ ("Simulasi O" :> sim_o) @@
        ("Total Simulasi" :> total_sim) @@
        ("Pmk A%" :> share_percent(sim_a, total_sim)) @@
        ("Pmk B%" :> share_percent(sim_b, total_sim)) @@
        ("Pmk AB%" :> share_percent(sim_ab, total_sim)) @@
        ("Pmk O%" :> share_percent(sim_o, total_sim))

\* The record one round of the loop appends, for the four draws of the round.
period_record(dict, k, a_acak, b_acak, ab_acak, o_acak) ==
    LET sim_a  == get_simulation_value(DictGet(dict, "A"), a_acak)
        sim_b  == get_simulation_value(DictGet(dict, "B"), b_acak)
        sim_ab == get_simulation_value(DictGet(dict, "AB"), ab_acak)
        sim_o  == get_simulation_value(DictGet(dict, "O"), o_acak)
        total_sim == sim_a + sim_b + sim_ab + sim_o
    IN  ("Periode" :> k + 1) @@
        ("Angka Acak A" :> a_acak) @@ ("Angka Acak B" :> b_acak) @@
        ("Angka Acak AB" :> ab_acak) @@ ("Angka Acak O" :> o_acak) @@
        ("Simulasi A" :> sim_a) @@ ("Simulasi B" :> sim_b) @@
        ("Simulasi AB" :> sim_ab) @@ ("Simulasi O" :> sim_o) @@
        ("Total Simulasi" :> total_sim) @@
        ("Pmk A%" :> share_percent(sim_a, total_sim)) @@
        ("Pmk B%" :> share_percent(sim_b, total_sim)) @@
        ("Pmk AB%" :> share_percent(sim_ab, total_sim)) @@
        ("Pmk O%" :> share_percent(sim_o, total_sim))

\* The tables of the four blood groups.
Row_7_17 == Row(<<"7", " ", "en_dash", " ", "1", "7">>, 100, 1)

TableA == <<Row_11_20, Row_21_30>>
TableB == <<Row_4_9, Row_1_10>>
TableAB == <<Row_x, Row_7_17>>

\* All four files loaded (the one of O unreadable, so an empty table); only
\* the file of A found; no file found.
DictAll == ("A" :> TableA) @@ ("B" :> TableB) @@ ("AB" :> TableAB) @@ ("O" :> <<>>)
DictOnlyA == ("A" :> TableA)
DictNone == <<>>

Dicts == {DictAll, DictOnlyA, DictNone}

InitEngine ==
    /\ pc = "engine_call"
    /\ distribusi_dict \in Dicts
    /\ num_simulations \in (0 - 2)..MaxPeriods
    /\ i = 0
    /\ simulation_results = <<>>
    /\ simulation_df = None
    /\ draws = 0
    /\ engine_calls = 0
    /\ IdlePage
    /\ IdleSampler
    /\ IdleInterval
    /\ IdleSummary

\* Entry of run_monte_carlo_simulation: the empty list and the progress bar.
EngineEnter ==
    /\ pc = "engine_call"
    /\ simulation_results' = <<>>
    /\ i' = 0
    /\ engine_calls' = engine_calls + 1
    /\ pc' = "loop"
    /\ UNCHANGED <<intervalVars, samplerVars, distribusi_dict, summaryVars, pageVars,
                   num_simulations, simulation_df, draws>>

\* One round of the loop: four draws, four sampled values, the total and the
\* shares, the record appended, the progress bar moved.
Period ==
    /\ pc = "loop"
    /\ RangeHasNext(i, num_simulations)
    /\ \E a_acak \in randint(RandLow, RandHigh), b_acak \in randint(RandLow, RandHigh),
          ab_acak \in randint(RandLow, RandHigh), o_acak \in randint(RandLow, RandHigh) :
          simulation_results' = Append(simulation_results,
              period_record(distribusi_dict, i, a_acak, b_acak, ab_acak, o_acak))
    /\ draws' = draws + 4
    /\ i' = i + 1
    /\ UNCHANGED <<pc, intervalVars, samplerVars, distribusi_dict, summaryVars, pageVars,
                   num_simulations, simulation_df, engine_calls>>

\* The loop is over: the progress bar is emptied and the records are returned.
Return ==
    /\ pc = "loop"
    /\ ~RangeHasNext(i, num_simulations)
    /\ simulation_df' = Some(simulation_results)
    /\ pc' = "returned"
    /\ UNCHANGED <<intervalVars, samplerVars, distribusi_dict, summaryVars, pageVars,
                   num_simulations, i, simulation_results, draws, engine_calls>>

NextEngine == EngineEnter \/ Period \/ Return

SpecEngine == InitEngine /\ [][NextEngine]_vars

(***************************************************************************)
(* The run button of the page (__main__).  Every press reruns the script,  *)
(* so one behaviour follows one run of the script with the text the input  *)
(* holds.  st.cache_data only spares a repeated call with equal arguments  *)
(* its execution; a single run never meets a filled cache.                 *)
(***************************************************************************)
MaxTextLen == 2

CountAlphabet == {"0", "1", "2", "-", " ", "x"}

\* The validation accepting a count of 0.
RejectsCountBelowZero(n) == n < 0

\* if num_simulations_input <= 0: the count is refused.
RejectsCount(n) == n <= 0

InitPage ==
    /\ pc = "form"
    /\ distribusi_dict \in Dicts
    /\ num_simulations_str \in TextsUpTo(CountAlphabet, MaxTextLen)
    /\ is_valid_input = TRUE
    /\ shown = <<>>
    /\ num_simulations = 0
    /\ i = 0
    /\ simulation_results = <<>>
    /\ simulation_df = None
    /\ draws = 0
    /\ engine_calls = 0
    /\ IdleSampler
    /\ IdleInterval
    /\ IdleSummary

\* The script run without a press of the button.
NoPress ==
    /\ pc = "form"
    /\ shown' = <<"info: press the button">>
    /\ pc' = "rendered"
    /\ UNCHANGED <<intervalVars, samplerVars, distribusi_dict, summaryVars, engineVars,
                   num_simulations_str, is_valid_input>>

\* The button pressed: the text is converted and checked, and the engine is
\* called for a valid count only.  Counts above MaxPeriods are not followed.
PressButton ==
    /\ pc = "form"
    /\ LET n == PyInt(num_simulations_str)
       IN  IF n = None
           THEN /\ shown' = <<"error: not an integer", "info: enter a valid count">>
                /\ is_valid_input' = FALSE
                /\ pc' = "rendered"
                /\ UNCHANGED num_simulations
           ELSE IF RejectsCount(n[1])
           THEN /\ shown' = <<"error: must be greater than 0", "info: enter a valid count">>
                /\ is_valid_input' = FALSE
                /\ pc' = "rendered"
                /\ UNCHANGED num_simulations
           ELSE /\ n[1] <= MaxPeriods
                /\ shown' = <<"spinner">>
                /\ is_valid_input' = TRUE
                /\ num_simulations' = n[1]
                /\ pc' = "engine_call"
    /\ UNCHANGED <<intervalVars, samplerVars, distribusi_dict, summaryVars, num_simulations_str,
                   i, simulation_results, simulation_df, draws, engine_calls>>

\* After the engine has returned: the result table, and for a result that is
\* not empty the charts, the summary and the insights.
ShowResults ==
    /\ pc = "returned"
    /\ shown' = shown \o
           (IF simulation_df[1] # <<>>
            THEN <<"result table", "bar chart", "pie chart",
                   "summary analysis", "decision insights">>
            ELSE <<"warning: no result", "error: nothing to analyse">>)
    /\ pc' = "rendered"
    /\ UNCHANGED <<intervalVars, samplerVars, distribusi_dict, summaryVars, engineVars,
                   num_simulations_str, is_valid_input>>

NextPage == NoPress \/ PressButton \/ EngineEnter \/ Period \/ Return \/ ShowResults

SpecPage == InitPage /\ [][NextPage]_vars

(***************************************************************************)
(* perform_summary_analysis and provide_decision_insights, each called     *)
(* with what run_monte_carlo_simulation returned.  A DataFrame built from  *)
(* a list of records is the sequence of those records; its index is        *)
(* 0, 1, ... and its columns are the keys of the records, so the table     *)
(* built from the empty list has no column at all.                         *)
(***************************************************************************)
\* sim_df.columns
Columns(sim_df) == IF sim_df = <<>> THEN {} ELSE DOMAIN sim_df[1]

\* sim_df.empty
IsEmpty(sim_df) == sim_df = <<>>

\* sim_df[[...]]: the columns line 249 selects; one that is missing is a KeyError.
StatColumns == <<"Simulasi A", "Simulasi B", "Simulasi AB", "Simulasi O", "Total Simulasi">>

HasColumns(sim_df, cols) == \A k \in 1..Len(cols) : cols[k] \in Columns(sim_df)

RECURSIVE ColumnSum(_, _)
ColumnSum(sim_df, col) ==
    IF sim_df = <<>> THEN 0 ELSE sim_df[1][col] + ColumnSum(Tail(sim_df), col)

RECURSIVE ColumnSumSq(_, _)
ColumnSumSq(sim_df, col) ==
    IF sim_df = <<>> THEN 0 ELSE sim_df[1][col] * sim_df[1][col] + ColumnSumSq(Tail(sim_df), col)

RECURSIVE ColumnMin(_, _)
ColumnMin(sim_df, col) ==
    IF Len(sim_df) = 1 THEN sim_df[1][col]
    ELSE LET rest == ColumnMin(Tail(sim_df), col)
         IN  IF sim_df[1][col] <= rest THEN sim_df[1][col] ELSE rest

RECURSIVE ColumnMax(_, _)
ColumnMax(sim_df, col) ==
    IF Len(sim_df) = 1 THEN sim_df[1][col]
    ELSE LET rest == ColumnMax(Tail(sim_df), col)
         IN  IF sim_df[1][col] >= rest THEN sim_df[1][col] ELSE rest

\* Series.mean() of a column of integers: the sum divided by the count, as a float.
ColumnMean(sim_df, col) == IntTrueDiv(ColumnSum(sim_df, col), Len(sim_df))

\* .agg(['mean', 'std', 'min', 'max']) of one column.  The standard deviation
\* is kept as its square, the sample variance, the exact fraction <<num, den>>;
\* it is NaN (None) for a single row, and so is every entry for no row.
column_stats(sim_df, col) ==
    LET n == Len(sim_df)
    IN  ("Rata-rata" :> (IF n = 0 THEN None ELSE Some(ColumnMean(sim_df, col)))) @@
        ("Standar Deviasi" :>
              (IF n <= 1 THEN None
               ELSE Some(<<n * ColumnSumSq(sim_df, col)
                             - ColumnSum(sim_df, col) * ColumnSum(sim_df, col), n * (n - 1)>>))) @@
        ("Minimum" :> (IF n = 0 THEN None ELSE Some(ColumnMin(sim_df, col)))) @@
        ("Maksimum" :> (IF n = 0 THEN None ELSE Some(ColumnMax(sim_df, col))))

summary_stats(sim_df) == [k \in 1..Len(StatColumns) |-> column_stats(sim_df, StatColumns[k])]

\* The scan taking the last of several equal maxima.
RECURSIVE idxmax_last(_, _, _, _)
idxmax_last(sim_df, col, k, best) ==
    IF k > Len(sim_df) THEN best
    ELSE idxmax_last(sim_df, col, k + 1,
                     IF sim_df[k][col] >= sim_df[best + 1][col] THEN k - 1 ELSE best)

\* Series.idxmax(): the index label of the first occurrence of the maximum,
\* found by a scan from row k on with the best label so far.
RECURSIVE idxmax_scan(_, _, _, _)
idxmax_scan(sim_df, col, k, best) ==
    IF k > Len(sim_df) THEN best
    ELSE idxmax_scan(sim_df, col, k + 1,
                     IF sim_df[k][col] > sim_df[best + 1][col] THEN k - 1 ELSE best)

idxmax(sim_df, col) == idxmax_scan(sim_df, col, 2, 0)

\* Series.idxmin(): the index label of the first occurrence of the minimum.
RECURSIVE idxmin_scan(_, _, _, _)
idxmin_scan(sim_df, col, k, best) ==
    IF k > Len(sim_df) THEN best
    ELSE idxmin_scan(sim_df, col, k + 1,
                     IF sim_df[k][col] < sim_df[best + 1][col] THEN k - 1 ELSE best)

idxmin(sim_df, col) == idxmin_scan(sim_df, col, 2, 0)

\* sim_df.loc[label] on the index 0, 1, ...: the row at that label.  The row
\* comes as floats, the table having float columns, and int() of its entries
\* gives back the integers of the record, all far below 2^53.
loc(sim_df, label) == sim_df[label + 1]

\* The part of a row the two functions print.
reported_period(row) ==
    ("Periode" :> row["Periode"]) @@ ("Total Simulasi" :> row["Total Simulasi"]) @@
    ("Simulasi A" :> row["Simulasi A"]) @@ ("Simulasi B" :> row["Simulasi B"]) @@
    ("Simulasi AB" :> row["Simulasi AB"]) @@ ("Simulasi O" :> row["Simulasi O"])

\* f <= g for two floats that are 0.0 or positive.
FloatLeq(f, g) ==
    IF f.m = <<>> THEN TRUE
    ELSE IF g.m = <<>> THEN FALSE
    ELSE IF f.e # g.e THEN f.e < g.e
    ELSE BigLeq(f.m, g.m)

\* The keys of avg_usages in the order they are put in.
BloodTypes == <<"A", "B", "AB", "O">>

avg_usages(sim_df) ==
    [k \in 1..Len(BloodTypes) |-> ColumnMean(sim_df, "Simulasi " \o BloodTypes[k])]

\* sorted(avg_usages.items(), key=..., reverse=True): from the highest average
\* to the lowest; the sort is stable, so equal averages keep the order of the keys.
sorted_avg_usages(sim_df) ==
    LET avg == avg_usages(sim_df)
        before(h, g) == \/ ~FloatLeq(avg[h], avg[g])
                        \/ (avg[h] = avg[g] /\ h < g)
        place(g) == 1 + Cardinality({h \in 1..Len(BloodTypes) : before(h, g)})
    IN  [q \in 1..Len(BloodTypes) |->
            LET g == CHOOSE g \in 1..Len(BloodTypes) : place(g) = q
            IN  <<BloodTypes[g], avg[g]>>]

\* perform_summary_analysis(simulation_df): the columns are selected and
\* aggregated first, before the table is looked at for being empty; then the
\* periods of the highest and of the lowest total are reported, or "no data".
PerformSummaryAnalysis ==
    /\ pc = "returned"
    /\ LET sim_df == simulation_df[1]
       IN  IF ~HasColumns(sim_df, StatColumns)
           THEN /\ raised' = Some("KeyError")
                /\ pc' = "raised"
                /\ UNCHANGED <<summary_report, shown>>
           ELSE /\ summary_report' = Some(
                      [ summary_stats |-> summary_stats(sim_df),
                        max_total_usage_period |->
                            IF ~IsEmpty(sim_df)
                            THEN Some(reported_period(loc(sim_df, idxmax(sim_df, "Total Simulasi"))))
                            ELSE None,
                        min_total_usage_period |->
                            IF ~IsEmpty(sim_df)
                            THEN Some(reported_period(loc(sim_df, idxmin(sim_df, "Total Simulasi"))))
                            ELSE None ])
                /\ shown' = shown \o <<"summary statistics">> \o
                      (IF ~IsEmpty(sim_df)
                       THEN <<"highest total period", "lowest total period">>
                       ELSE <<"info: no data for the summary">>)
                /\ pc' = "summarised"
                /\ UNCHANGED raised
    /\ UNCHANGED <<intervalVars, samplerVars, distribusi_dict, engineVars,
                   num_simulations_str, is_valid_input, insights_report>>

\* provide_decision_insights(simulation_df): "no data" for an empty table,
\* else the averages, the blood groups from the most to the least used, and
\* the periods of the highest and of the lowest total.
ProvideDecisionInsights ==
    /\ pc \in {"returned", "summarised"}
    /\ LET sim_df == simulation_df[1]
       IN  IF IsEmpty(sim_df)
           THEN /\ shown' = shown \o <<"insights header", "info: no data for the insights">>
                /\ UNCHANGED insights_report
           ELSE /\ insights_report' = Some(
                      [ total_avg_usage |-> ColumnMean(sim_df, "Total Simulasi"),
                        sorted_avg_usages |-> sorted_avg_usages(sim_df),
                        max_total_usage_period |->
                            reported_period(loc(sim_df, idxmax(sim_df, "Total Simulasi"))),
                        min_total_usage_period |->
                            reported_period(loc(sim_df, idxmin(sim_df, "Total Simulasi"))) ])
                /\ shown' = shown \o <<"insights header", "insights", "peak and low periods">>
    /\ pc' = "insights_done"
    /\ UNCHANGED <<intervalVars, samplerVars, distribusi_dict, engineVars,
                   num_simulations_str, is_valid_input, summary_report, raised>>

InitSummary == InitEngine

NextSummary ==
    EngineEnter \/ Period \/ Return \/ PerformSummaryAnalysis \/ ProvideDecisionInsights

SpecSummary == InitSummary /\ [][NextSummary]_vars

(***************************************************************************)
(* The bands as the specification words them, for stating the claims.      *)
(***************************************************************************)
Abs(n) == IF n < 0 THEN 0 - n ELSE n

\* The integer nearest to the fraction x, the even one of two equally near.
RoundedPercent(x) ==
    CHOOSE u \in (x[1] \div x[2] - 1)..(x[1] \div x[2] + 1) :
        /\ 2 * Abs(u * x[2] - x[1]) <= x[2]
        /\ 2 * Abs(u * x[2] - x[1]) = x[2] => u % 2 = 0

BandUpper(table, k) == RoundedPercent(table[k].cum)
BandLower(table, k) == IF k = 1 THEN 0 ELSE BandUpper(table, k - 1) + 1
InBand(table, k, n) == BandLower(table, k) <= n /\ n <= BandUpper(table, k)

\* The first row whose band holds n, 0 when no row's band does.
FirstBand(table, n) ==
    IF \E k \in 1..Len(table) : InBand(table, k, n)
    THEN CHOOSE k \in 1..Len(table) :
            /\ InBand(table, k, n)
            /\ \A j \in 1..(k - 1) : ~InBand(table, j, n)
    ELSE 0

LabelParses(label) ==
    LET ab == parse_interval(clean_interval_string(label))
    IN  ab[1] # None /\ ab[2] # None

\* v is the least integer that is at least (a + b) / 2.
IsCeilOfMean(v, a, b) == 2 * v >= a + b /\ 2 * (v - 1) < a + b

\* C1: for every table and every draw in 0..99 the sampler returns
\* ceil((a + b) / 2) of the first row whose band lower_i..upper_i holds the
\* draw, the bands being lower_1 = 0, upper_i = round(cumulative percent),
\* lower_(i+1) = upper_i + 1; the one-row table "1-10" with cumulative
\* percent 100 gives 6 for every draw.
C1_FirstBandMidpoint ==
    pc # "call" =>
        LET k == FirstBand(df, random_number)
        IN  /\ random_number \in 0..99
            /\ (k # 0 /\ LabelParses(df[k].interval)) =>
                   LET ab == parse_interval(clean_interval_string(df[k].interval))
                   IN  /\ sim_value # None
                       /\ IsCeilOfMean(sim_value[1], ab[1][1], ab[2][1])
            /\ df = <<Row_1_10>> => sim_value = Some(6)

\* A draw that two bands of a table hold, answered with the first one's midpoint.
C1_Witness ==
    /\ pc = "sampled"
    /\ FirstBand(df, random_number) = 1
    /\ \E k \in 2..Len(df) : InBand(df, k, random_number) /\ LabelParses(df[k].interval)
    /\ df[1] = Row_11_20
    /\ sim_value = Some(16)

\* C2: the sampler returns 0, and does return, for every draw outside every
\* band (every draw on an empty table, a draw above the last upper bound), and
\* when the first row whose band holds the draw has a label that does not parse.
C2_ZeroFallback ==
    pc # "call" =>
        LET k == FirstBand(df, random_number)
        IN  /\ sim_value # None
            /\ k = 0 => sim_value = Some(0)
            /\ (k # 0 /\ ~LabelParses(df[k].interval)) => sim_value = Some(0)

\* A draw of 99 above a last band that ends at 98.
C2_Witness ==
    /\ pc = "sampled"
    /\ df # <<>>
    /\ BandUpper(df, Len(df)) = 98
    /\ random_number = 99
    /\ FirstBand(df, random_number) = 0
    /\ sim_value = Some(0)

C2_WitnessEmpty == pc = "sampled" /\ df = <<>> /\ sim_value = Some(0)

\* An unparsable first match although a later band with a good label holds the draw.
C2_WitnessUnparsed ==
    /\ pc = "sampled"
    /\ FirstBand(df, random_number) # 0
    /\ ~LabelParses(df[FirstBand(df, random_number)].interval)
    /\ \E k \in 1..Len(df) : InBand(df, k, random_number) /\ LabelParses(df[k].interval)
    /\ sim_value = Some(0)

\* The cumulative percent of a table never decreases from a row to the next.
Monotone(table) ==
    \A k \in 1..(Len(table) - 1) :
        table[k].cum[1] * table[k + 1].cum[2] <= table[k + 1].cum[1] * table[k].cum[2]

\* The band a displayed 'Interval Angka Acak' text "lower - upper" reads as.
ShownBand(text) ==
    LET words == Split(text, " ")
    IN  <<PyInt(words[1])[1], PyInt(words[Len(words)])[1]>>

ShownBands == [k \in 1..Len(display_df) |-> ShownBand(display_df[k].interval_angka_acak)]

\* The first band starts at 0 and each later one at the upper bound before it, plus 1.
Contiguous(bands) ==
    /\ bands # <<>> => bands[1][1] = 0
    /\ \A k \in 2..Len(bands) : bands[k][1] = bands[k - 1][2] + 1

BandHolds(band, n) == band[1] <= n /\ n <= band[2]

\* No integer is in two bands.
NonOverlapping(bands) ==
    \A j, k \in 1..Len(bands) :
        j < k => \A n \in 0..101 : ~(BandHolds(bands[j], n) /\ BandHolds(bands[k], n))

\* Every integer from 0 to the last upper bound is in a band, and none above is.
CoversUpTo(bands, top) ==
    \A n \in 0..101 : (n <= top) <=> (\E k \in 1..Len(bands) : BandHolds(bands[k], n))

\* C7: for a table whose cumulative percent never decreases, the bands the
\* sampler goes through and the bands the display shows start at 0, each later
\* band starts at the upper bound before it plus 1, no integer is in two bands,
\* none is left out between them, and (once every row has been gone through)
\* they end at the rounded cumulative percent of the last row.
C7_BandsPartition ==
    Monotone(df) =>
        /\ pc # "call" =>
              /\ Contiguous(sim_bands)
              /\ NonOverlapping(sim_bands)
              /\ \A k \in 1..Len(sim_bands) : sim_bands[k] = <<BandLower(df, k), BandUpper(df, k)>>
              /\ (Len(sim_bands) = Len(df) /\ df # <<>>) =>
                     CoversUpTo(sim_bands, RoundedPercent(df[Len(df)].cum))
        /\ pc = "displayed" =>
              /\ Len(ShownBands) = Len(df)
              /\ Contiguous(ShownBands)
              /\ NonOverlapping(ShownBands)
              /\ df # <<>> => CoversUpTo(ShownBands, RoundedPercent(df[Len(df)].cum))

\* Three rows of rising cumulative percent, all gone through and all shown.
C7_Witness ==
    /\ pc = "displayed"
    /\ Len(df) = 3
    /\ Monotone(df)
    /\ Len(sim_bands) = 3
    /\ ShownBands = <<<<0, 2>>, <<3, 50>>, <<51, 98>>>>
    /\ sim_bands = ShownBands

\* C8: every band lowerBound..upperBound of a table whose cumulative percent
\* never decreases lies in 0..99 with lowerBound <= upperBound; the band of a
\* last row with cumulative percent 100 ends at 99.
C8_BandsWithin0To99 ==
    Monotone(df) =>
        /\ pc # "call" =>
              \A k \in 1..Len(sim_bands) :
                  0 <= sim_bands[k][1] /\ sim_bands[k][1] <= sim_bands[k][2] /\ sim_bands[k][2] <= 99
        /\ pc = "displayed" =>
              \A k \in 1..Len(ShownBands) :
                  0 <= ShownBands[k][1] /\ ShownBands[k][1] <= ShownBands[k][2] /\ ShownBands[k][2] <= 99

IsDashLike(c) == c \in {"-", "a_circ", "en_dash", "em_dash"}

\* The text without the characters the cleaning drops (spaces and commas).
RECURSIVE Kept(_)
Kept(s) ==
    IF s = <<>> THEN <<>>
    ELSE (IF Head(s) \in {" ", ","} THEN <<>> ELSE <<Head(s)>>) \o Kept(Tail(s))

\* A label "a<dashes>b": digits, one run of dash-like characters, digits.
IsDashedPair(s) ==
    LET t == Kept(s)
    IN  \E from, to \in 1..Len(t) :
            /\ 1 < from /\ from <= to /\ to < Len(t)
            /\ \A k \in 1..Len(t) : (from <= k /\ k <= to) <=> IsDashLike(t[k])
            /\ \A k \in 1..Len(t) : ~(from <= k /\ k <= to) => t[k] \in Digits

Text103_130 == <<"1", "0", "3", "-", "1", "3", "0">>

\* C9: cleaning the label "103a-130" (a = U+00E2) gives "103-130", parsing that
\* gives (103, 130) and the midpoint is 117; in general the dash-like
\* characters between the two bounds of a label end up as one ASCII hyphen, so
\* that the label parses into its two bounds.
C9_DashArtifactNormalised ==
    pc = "done" =>
        /\ interval_str = Label103 =>
               /\ cleaned = Some(Text103_130)
               /\ parsed = Some(<<Some(103), Some(130)>>)
               /\ midpoint = Some(117)
        /\ IsDashedPair(interval_str) =>
               /\ Cardinality({k \in 1..Len(cleaned[1]) : cleaned[1][k] = "-"}) = 1
               /\ parsed[1][1] # None /\ parsed[1][2] # None

\* What the code does hold to: each dash-like character becomes a hyphen of
\* its own, and a label with exactly one dash-like character between its
\* bounds parses.
C9_OneDashParses ==
    pc = "done" =>
        /\ \A k \in 1..Len(cleaned[1]) : cleaned[1][k] \notin {"a_circ", "en_dash", "em_dash", " ", ","}
        /\ (IsDashedPair(interval_str)
              /\ Cardinality({k \in 1..Len(interval_str) : IsDashLike(interval_str[k])}) = 1) =>
               parsed[1][1] # None /\ parsed[1][2] # None
        /\ interval_str = LabelEnDash => midpoint = Some(117)
        /\ interval_str = Label103 => cleaned = Some(<<"1", "0", "3", "-", "-", "1", "3", "0">>) /\ midpoint = None

Groups == {"A", "B", "AB", "O"}

\* The table run_monte_carlo_simulation samples a blood group from.
TableOf(gol) == IF gol \in DOMAIN distribusi_dict THEN distribusi_dict[gol] ELSE <<>>

\* C3: for periods > 0 the engine returns exactly `periods` records and the
\* k-th of them has Periode = k: 1..periods in order, no gap, no duplicate.
C3_PeriodsInOrder ==
    /\ \A k \in 1..Len(simulation_results) : simulation_results[k]["Periode"] = k
    /\ (pc = "returned" /\ num_simulations > 0) =>
           /\ simulation_df = Some(simulation_results)
           /\ Len(simulation_df[1]) = num_simulations

C3_Witness ==
    /\ pc = "returned"
    /\ num_simulations = 2
    /\ Len(simulation_df[1]) = 2
    /\ simulation_df[1][2]["Periode"] = 2

\* C4: in every record 'Total Simulasi' is the sum of the four 'Simulasi X',
\* each 'Simulasi X' is the sampler's value for the table of X and the
\* record's own 'Angka Acak X', and that draw is an integer in 0..99.
C4_TotalIsSumOfSamples ==
    \A k \in 1..Len(simulation_results) :
        LET rec == simulation_results[k]
        IN  /\ rec["Total Simulasi"] = rec["Simulasi A"] + rec["Simulasi B"]
                                       + rec["Simulasi AB"] + rec["Simulasi O"]
            /\ \A gol \in Groups :
                  /\ rec["Angka Acak " \o gol] \in 0..99
                  /\ rec["Simulasi " \o gol] =
                         get_simulation_value(TableOf(gol), rec["Angka Acak " \o gol])

\* A record whose four values come from three different tables and an absent one.
C4_Witness ==
    /\ distribusi_dict = DictAll
    /\ simulation_results # <<>>
    /\ simulation_results[1]["Simulasi A"] = 16
    /\ simulation_results[1]["Simulasi B"] = 6
    /\ simulation_results[1]["Simulasi AB"] = 12
    /\ simulation_results[1]["Total Simulasi"] = 34

\* C5 as claimed: called with periods <= 0 the engine fails before any draw
\* and produces no records; it does not return normally with an empty result.
C5_NonPositiveIsRejected ==
    num_simulations <= 0 =>
        /\ draws = 0
        /\ simulation_results = <<>>
        /\ simulation_df = None

\* C5 as the code has it: called with periods <= 0 the engine makes no draw,
\* builds no record and returns normally, with the empty result.
C5_NonPositiveReturnsEmpty ==
    num_simulations <= 0 =>
        /\ draws = 0
        /\ simulation_results = <<>>
        /\ pc = "returned" => simulation_df = Some(<<>>)
        /\ pc = "loop" => ENABLED Return

C5_Witness ==
    /\ pc = "returned"
    /\ num_simulations < 0
    /\ simulation_df = Some(<<>>)
    /\ draws = 0

\* The text is an integer greater than 0: spaces around, an optional plus
\* sign, then decimal digits of which one is not 0.
IsPositiveCountText(s) ==
    \E from, to \in 1..Len(s) :
        /\ from <= to
        /\ \A k \in 1..Len(s) : (k < from \/ k > to) => s[k] = " "
        /\ LET first == IF s[from] = "+" THEN from + 1 ELSE from
           IN  /\ first <= to
               /\ \A k \in first..to : s[k] \in Digits
               /\ \E k \in first..to : s[k] # "0"

RunOutputs == {"spinner", "result table", "bar chart", "pie chart", "summary analysis",
               "decision insights", "warning: no result", "error: nothing to analyse"}

ErrorOutputs == {"error: not an integer", "error: must be greater than 0"}

Shows(outputs) == \E k \in 1..Len(shown) : shown[k] \in outputs

Pressed == pc # "form" /\ shown # <<"info: press the button">>

\* C6: after a press of the run button the engine, and every analysis or
\* chart after it, runs only if the count text is an integer greater than 0;
\* for any other text an error is shown, the engine is never entered, no draw
\* is made and no result exists.
C6_EngineOnlyForPositiveCount ==
    /\ (engine_calls > 0 \/ draws > 0 \/ simulation_df # None \/ Shows(RunOutputs)
          \/ pc \in {"engine_call", "loop", "returned"}) =>
           /\ IsPositiveCountText(num_simulations_str)
           /\ num_simulations > 0
    /\ (Pressed /\ ~IsPositiveCountText(num_simulations_str)) =>
           /\ pc = "rendered"
           /\ Shows(ErrorOutputs)
           /\ ~Shows(RunOutputs)
           /\ engine_calls = 0 /\ draws = 0 /\ simulation_df = None
           /\ ~ENABLED NextPage

\* The count text "0": an integer, refused, nothing run.
C6_Witness ==
    /\ pc = "rendered"
    /\ num_simulations_str = <<"0">>
    /\ shown = <<"error: must be greater than 0", "info: enter a valid count">>
    /\ engine_calls = 0

C6_WitnessRun ==
    /\ pc = "rendered"
    /\ num_simulations_str = <<" ", "2">>
    /\ Shows({"decision insights"})
    /\ engine_calls = 1 /\ draws = 8

\* The float f is the natural number n.
FloatIsNat(f, n) ==
    IF n = 0 THEN f.m = <<>>
    ELSE /\ f.m # <<>>
         /\ IF f.e <= 0 THEN f.m = BigShl(BigFromNat(n), 0 - f.e)
            ELSE BigShl(f.m, f.e) = BigFromNat(n)

\* f * 2^64 as a natural number, for a float f that is 0 or at least 2^-11.
Scaled(f) == BigShl(f.m, f.e + 64)

\* |x - y| <= z for natural numbers.
BigWithin(x, y, z) == BigLeq(x, BigAdd(y, z)) /\ BigLeq(y, BigAdd(x, z))

\* The four shares added as real numbers, times 2^64.
ExactSumScaled(rec) ==
    BigAdd(BigAdd(BigAdd(Scaled(rec["Pmk A%"]), Scaled(rec["Pmk B%"])),
                  Scaled(rec["Pmk AB%"])), Scaled(rec["Pmk O%"]))

\* The four shares added as Python adds floats, from left to right.
FloatSum(rec) ==
    FloatAdd(FloatAdd(FloatAdd(rec["Pmk A%"], rec["Pmk B%"]), rec["Pmk AB%"]), rec["Pmk O%"])

\* The share is Simulasi X / Total Simulasi * 100 as a real number.
ShareIsExact(rec, gol) ==
    BigMulSmall(Scaled(rec["Pmk " \o gol \o "%"]), rec["Total Simulasi"], 0)
        = BigShl(BigFromNat(100 * rec["Simulasi " \o gol]), 64)

\* The share is within a relative 2^-51 of Simulasi X / Total Simulasi * 100.
ShareIsClose(rec, gol) ==
    BigWithin(BigMulSmall(Scaled(rec["Pmk " \o gol \o "%"]), rec["Total Simulasi"], 0),
              BigShl(BigFromNat(100 * rec["Simulasi " \o gol]), 64),
              BigShl(BigFromNat(100 * rec["Simulasi " \o gol]), 13))

SharesAllZero(rec) == \A gol \in Groups : rec["Pmk " \o gol \o "%"] = FloatZero

\* C10 as claimed: in every record with 'Total Simulasi' > 0 each 'Pmk X%'
\* is the value of 'Simulasi X' / 'Total Simulasi' * 100 and the four sum to
\* 100 (added exactly, or added as floats from left to right); with
\* 'Total Simulasi' = 0 all four are 0.
C10_SharesSumTo100 ==
    \A k \in 1..Len(simulation_results) :
        LET rec == simulation_results[k]
        IN  IF rec["Total Simulasi"] > 0
            THEN /\ \A gol \in Groups :
                        rec["Pmk " \o gol \o "%"] =
                            share_percent(rec["Simulasi " \o gol], rec["Total Simulasi"])
                 /\ \/ ExactSumScaled(rec) = BigShl(BigFromNat(100), 64)
                    \/ FloatIsNat(FloatSum(rec), 100)
            ELSE SharesAllZero(rec)

\* C10 as the code has it: with 'Total Simulasi' > 0 each 'Pmk X%' is within
\* a relative 2^-51 of 'Simulasi X' / 'Total Simulasi' * 100 (two float
\* roundings) and the four sum to 100 within 2^-44, added exactly or added as
\* floats; with 'Total Simulasi' = 0 all four are 0.
C10_SharesSumToAbout100 ==
    \A k \in 1..Len(simulation_results) :
        LET rec == simulation_results[k]
        IN  IF rec["Total Simulasi"] > 0
            THEN /\ \A gol \in Groups : ShareIsClose(rec, gol)
                 /\ BigWithin(ExactSumScaled(rec), BigShl(BigFromNat(100), 64), BigShl(<<1>>, 20))
                 /\ BigWithin(Scaled(FloatSum(rec)), BigShl(BigFromNat(100), 64), BigShl(<<1>>, 20))
            ELSE SharesAllZero(rec)

\* Samples 0, 6, 12, 0: shares that are rounded and that sum to less than 100.
C10_Witness ==
    \E k \in 1..Len(simulation_results) :
        LET rec == simulation_results[k]
        IN  /\ rec["Simulasi A"] = 0 /\ rec["Simulasi B"] = 6
            /\ rec["Simulasi AB"] = 12 /\ rec["Simulasi O"] = 0
            /\ ~ShareIsExact(rec, "B")
            /\ ExactSumScaled(rec) # BigShl(BigFromNat(100), 64)
            /\ ~FloatIsNat(FloatSum(rec), 100)

C10_WitnessZeroTotal ==
    \E k \in 1..Len(simulation_results) :
        simulation_results[k]["Total Simulasi"] = 0 /\ SharesAllZero(simulation_results[k])

C10_WitnessExact ==
    \E k \in 1..Len(simulation_results) :
        /\ simulation_results[k]["Total Simulasi"] = 16
        /\ FloatIsNat(simulation_results[k]["Pmk A%"], 100)

\* The sampled values of a record are 0 for every blood group that is absent
\* from distribusi_dict or whose table is empty.
AbsentGroupsAreZero(rec) ==
    \A gol \in Groups :
        (gol \notin DOMAIN distribusi_dict \/ distribusi_dict[gol] = <<>>) =>
            rec["Simulasi " \o gol] = 0

\* With only A present the total of a record is the sample of A alone.
OnlyAIsTotal(rec) ==
    distribusi_dict = DictOnlyA =>
        /\ rec["Simulasi B"] = 0 /\ rec["Simulasi AB"] = 0 /\ rec["Simulasi O"] = 0
        /\ rec["Total Simulasi"] = rec["Simulasi A"]

\* C11: a blood group that is absent from distribusi_dict, or whose table is
\* empty, never aborts the run: in every record its sampled value is 0
\* whatever its draw; with only A present every record has 'Simulasi B' =
\* 'Simulasi AB' = 'Simulasi O' = 0 and 'Total Simulasi' = 'Simulasi A'; every
\* round that is due yields such a record for each of its draws, the loop
\* then returns, and the run returns all `periods` records.
C11_AbsentGroupSamplesZero ==
    /\ \A k \in 1..Len(simulation_results) :
          AbsentGroupsAreZero(simulation_results[k]) /\ OnlyAIsTotal(simulation_results[k])
    /\ pc = "loop" =>
          /\ Len(simulation_results) = i
          /\ IF RangeHasNext(i, num_simulations)
             THEN \A a_acak \in randint(RandLow, RandHigh), b_acak \in randint(RandLow, RandHigh),
                     ab_acak \in randint(RandLow, RandHigh), o_acak \in randint(RandLow, RandHigh) :
                     LET rec == period_record(distribusi_dict, i, a_acak, b_acak, ab_acak, o_acak)
                     IN  AbsentGroupsAreZero(rec) /\ OnlyAIsTotal(rec)
             ELSE ENABLED Return
    /\ (pc = "returned" /\ num_simulations > 0) => Len(simulation_df[1]) = num_simulations

\* Only A present, two periods returned, the first with a sample of A that is
\* not 0 and draws of 0 for the absent groups.
C11_Witness ==
    /\ pc = "returned"
    /\ distribusi_dict = DictOnlyA
    /\ num_simulations = 2
    /\ Len(simulation_df[1]) = 2
    /\ simulation_df[1][1]["Simulasi A"] = 16
    /\ simulation_df[1][1]["Angka Acak B"] = 0
    /\ simulation_df[1][1]["Simulasi B"] = 0
    /\ simulation_df[1][1]["Total Simulasi"] = 16

\* The table of O loaded but empty: draws at both ends of the range sample 0.
C11_WitnessEmptyTable ==
    /\ distribusi_dict = DictAll
    /\ Len(simulation_results) = 2
    /\ simulation_results[1]["Angka Acak O"] = 0 /\ simulation_results[1]["Simulasi O"] = 0
    /\ simulation_results[2]["Angka Acak O"] = 99 /\ simulation_results[2]["Simulasi O"] = 0
    /\ simulation_results[1]["Total Simulasi"] > 0

\* perform_summary_analysis has been called and has ended, one way or the other.
SummaryEnded == pc = "raised" \/ summary_report # None

\* C12 as claimed: perform_summary_analysis called with the empty result of an
\* empty run does not raise; it ends with the explicit "no data" outcome.
C12_EmptyResultReportsNoData ==
    (simulation_df = Some(<<>>) /\ SummaryEnded) =>
        /\ raised = None
        /\ Shows({"info: no data for the summary"})

\* C12 as the code has it: on the empty result of an empty run the selection of
\* the columns raises KeyError before the table is looked at for being
\* empty; nothing is shown, the "no data" outcome included.  The "no data"
\* outcome of provide_decision_insights is reached for the same table.
C12_EmptyResultRaisesKeyError ==
    /\ (simulation_df = Some(<<>>) /\ SummaryEnded) =>
           /\ raised = Some("KeyError")
           /\ pc = "raised"
           /\ summary_report = None
           /\ shown = <<>>
    /\ ~Shows({"info: no data for the summary"})
    /\ (simulation_df = Some(<<>>) /\ pc = "insights_done") =>
           /\ raised = None
           /\ shown = <<"insights header", "info: no data for the insights">>

C12_WitnessRaised ==
    /\ simulation_df = Some(<<>>)
    /\ num_simulations = 0
    /\ pc = "raised"
    /\ raised = Some("KeyError")

\* The report names a period of the table with the highest total, the one of
\* the smallest Periode among those, and gives that period's own numbers.
IsHighestPeriod(rep, sim_df) ==
    /\ \E k \in 1..Len(sim_df) : rep = reported_period(sim_df[k])
    /\ \A k \in 1..Len(sim_df) :
          /\ sim_df[k]["Total Simulasi"] <= rep["Total Simulasi"]
          /\ sim_df[k]["Total Simulasi"] = rep["Total Simulasi"] =>
                 rep["Periode"] <= sim_df[k]["Periode"]

IsLowestPeriod(rep, sim_df) ==
    /\ \E k \in 1..Len(sim_df) : rep = reported_period(sim_df[k])
    /\ \A k \in 1..Len(sim_df) :
          /\ sim_df[k]["Total Simulasi"] >= rep["Total Simulasi"]
          /\ sim_df[k]["Total Simulasi"] = rep["Total Simulasi"] =>
                 rep["Periode"] <= sim_df[k]["Periode"]

\* C13: for every non-empty result table the reported highest-usage period
\* has 'Total Simulasi' equal to the maximum over all periods and the
\* reported lowest-usage period has it equal to the minimum; of several
\* periods with that total the one of the smallest Periode is reported.  This
\* holds for the report of perform_summary_analysis and for the one of
\* provide_decision_insights, and both are made for every such table.
C13_ExtremesAreMaxAndMin ==
    /\ SummaryEnded /\ simulation_df # Some(<<>>) =>
          /\ raised = None
          /\ summary_report # None
          /\ summary_report[1].max_total_usage_period # None
          /\ summary_report[1].min_total_usage_period # None
          /\ IsHighestPeriod(summary_report[1].max_total_usage_period[1], simulation_df[1])
          /\ IsLowestPeriod(summary_report[1].min_total_usage_period[1], simulation_df[1])
    /\ (pc = "insights_done" /\ simulation_df # Some(<<>>)) =>
          /\ insights_report # None
          /\ IsHighestPeriod(insights_report[1].max_total_usage_period, simulation_df[1])
          /\ IsLowestPeriod(insights_report[1].min_total_usage_period, simulation_df[1])

\* Totals 0 then 16: the highest is period 2 and the lowest is period 1.
C13_Witness ==
    /\ pc = "insights_done"
    /\ summary_report # None
    /\ Len(simulation_df[1]) = 2
    /\ simulation_df[1][1]["Total Simulasi"] = 0
    /\ simulation_df[1][2]["Total Simulasi"] = 16
    /\ summary_report[1].max_total_usage_period[1]["Periode"] = 2
    /\ summary_report[1].min_total_usage_period[1]["Periode"] = 1
    /\ insights_report[1].max_total_usage_period["Periode"] = 2
    /\ insights_report[1].min_total_usage_period["Periode"] = 1

\* Two periods of the same total: period 1 is both the highest and the lowest.
C13_WitnessTie ==
    /\ summary_report # None
    /\ Len(simulation_df[1]) = 2
    /\ simulation_df[1][1]["Total Simulasi"] = 34
    /\ simulation_df[1][2]["Total Simulasi"] = 34
    /\ summary_report[1].max_total_usage_period[1]["Periode"] = 1
    /\ summary_report[1].min_total_usage_period[1]["Periode"] = 1

====
